---- MODULE Spec2Model ----
(***************************************************************************)
(* run_Node2Vec.py: the Node2Vec experiment script.  The model follows the *)
(* control flow of the entry point (lines 113-146) and of run_experiment   *)
(* (lines 32-110) statement by statement; create_model (lines 22-28) is an *)
(* operator.  The imported collaborators (setup_env, create_data_loader,   *)
(* Node2Vec, the sklearn classifiers, eval_pred, TestLogMetrics, mlflow,   *)
(* numpy, shutil) are modelled by their contract: their results are        *)
(* symbolic values that record what they were computed from, and each of   *)
(* the calls the specification names as able to fail either returns or     *)
(* raises.                                                                 *)
(***************************************************************************)
EXTENDS Integers, Sequences, FiniteSets, TLC

\* Bounds of the model.
MaxKey == 1        \* node keys are drawn from -1..MaxKey, as int or as str
MaxNodes == 2      \* a graph holds 1..MaxNodes nodes
MaxSplits == 2     \* an entry of the num_splits list is in 0..MaxSplits
MaxCombos == 2     \* the num_splits list holds 1..MaxCombos entries

VARIABLES
    seed,                      \* the entry point's list of seeds (line 121)
    num_splits,                \* the entry point's list of split counts (line 122)
    model_hyper_parameters,    \* the model configuration (line 130 / line 19)
    dataGraph,                 \* the node keys of the graph the data loader reads
    pc,                        \* the statement about to be executed
    si, ni,                    \* positions of the two for loops of lines 131, 133
    runNo,                     \* number of tracked runs started (line 134)
    error,                     \* the exception that ended the program, if any
    collabRaised,              \* some collaborator call raised
    env,                       \* setup_env's result (line 49)
    datasets,                  \* the data loader's result (lines 54-57)
    embedded,                  \* node2vec.fit has returned (line 63)
    node_embeddings_node2vec,  \* row index -> node key whose vector it holds
    todo,                      \* nodes the loop of line 67 has yet to visit
    val_logger, test_logger,   \* metric name -> position -> value (lines 71-72)
    it,                        \* next value of range(num_splits) (line 74)
    run_id,                    \* the loop variable of line 74
    visited,                   \* the values run_id has taken, in order
    model,                     \* the classifier of the current split
    fits,                      \* number of model.fit calls of the current run
    pred, test_pred,           \* prediction passes (lines 82, 88)
    val_metrics, test_metrics, \* eval_pred results (lines 84, 90)
    splitsRead,                \* the (split, part) index sets read so far
    mi,                        \* position of the metric loops of lines 95, 104
    scalars,                   \* mlflow.log_metric calls, in order
    saved,                     \* np.save calls, in order
    artifacts,                 \* mlflow.log_artifact calls, in order
    exp_dir,                   \* the entry point's exp_dir (line 135)
    rmtreeArgs,                \* the paths handed to shutil.rmtree, in order
    printed                    \* the reports printed by the handler of line 146

vars == <<seed, num_splits, model_hyper_parameters, dataGraph, pc, si, ni, runNo,
          error, collabRaised, env, datasets, embedded, node_embeddings_node2vec,
          todo, val_logger, test_logger, it, run_id, visited, model, fits, pred,
          test_pred, val_metrics, test_metrics, splitsRead, mi, scalars, saved,
          artifacts, exp_dir, rmtreeArgs, printed>>

\* What the entry point and the run leave alone, by group.
inputs == <<seed, num_splits, model_hyper_parameters, dataGraph>>
mainVars == <<si, ni, runNo, exp_dir, rmtreeArgs, printed>>
dataVars == <<env, datasets, embedded, node_embeddings_node2vec, todo>>
loggerVars == <<val_logger, test_logger>>
loopVars == <<it, run_id, visited>>
splitVars == <<model, fits, pred, test_pred, val_metrics, test_metrics, splitsRead>>
outVars == <<mi, scalars, saved, artifacts>>

---------------------------------------------------------------------------
\* Values.

None == [none |-> TRUE]          \* Python's None
Unbound == [unbound |-> TRUE]    \* a local name not yet assigned
NoError == [type |-> "none", msg |-> "", line |-> 0]

\* The tracked metric names, in the order of the lists of lines 71 and 72.
Metrics == <<"accuracy", "precision", "f1_macro", "f1_micro">>
MetricNames == {Metrics[i] : i \in 1..Len(Metrics)}

\* Node keys are integer-like: an int, or a str holding an int's digits.
NodeKeys == [type : {"int", "str"}, val : (0 - 1)..MaxKey]
Graphs == {g \in SUBSET NodeKeys : Cardinality(g) \in 1..MaxNodes}

\* Model configurations: line 130 with each identifier, and the default of
\* line 19, which carries no model_name.
ModelConfigs == {[latent_dim |-> 64, model_name |-> n] : n \in {"LR", "RF", "SVM"}}
                \cup {[latent_dim |-> 32]}

\* The lists of split counts the entry point may iterate over.
SplitLists == UNION {[1..n -> 0..MaxSplits] : n \in 1..MaxCombos}

---------------------------------------------------------------------------
\* Pure functions of the script and the contracts of its collaborators.

\* A faulty factory that falls back to a random forest for any identifier.
create_model_fallback(model_hyperparameters) ==
    IF "model_name" \notin DOMAIN model_hyperparameters
    THEN [raised |-> "KeyError", msg |-> "model_name", value |-> "None"]
    ELSE IF model_hyperparameters.model_name = "LR"
    THEN [raised |-> "none", msg |-> "", value |-> "LogisticRegression"]
    ELSE [raised |-> "none", msg |-> "", value |-> "RandomForestClassifier"]

\* A faulty factory whose two families are exchanged and whose error does
\* not carry the identifier.
create_model_swapped(model_hyperparameters) ==
    IF "model_name" \notin DOMAIN model_hyperparameters
    THEN [raised |-> "KeyError", msg |-> "model_name", value |-> "None"]
    ELSE IF model_hyperparameters.model_name = "LR"
    THEN [raised |-> "none", msg |-> "", value |-> "RandomForestClassifier"]
    ELSE IF model_hyperparameters.model_name = "RF"
    THEN [raised |-> "none", msg |-> "", value |-> "LogisticRegression"]
    ELSE [raised |-> "Exception", msg |-> "model not allowed.", value |-> "None"]

\* create_model (lines 22-28): what it returns, or what it raises.
create_model(model_hyperparameters) ==
    IF "model_name" \notin DOMAIN model_hyperparameters
    THEN [raised |-> "KeyError", msg |-> "model_name", value |-> "None"]
    ELSE IF model_hyperparameters.model_name = "LR"
    THEN [raised |-> "none", msg |-> "", value |-> "LogisticRegression"]
    ELSE IF model_hyperparameters.model_name = "RF"
    THEN [raised |-> "none", msg |-> "", value |-> "RandomForestClassifier"]
    ELSE [raised |-> "Exception",
          msg |-> model_hyperparameters.model_name \o " not allowed.",
          value |-> "None"]

\* int(node_id) of line 68: an int key is itself, a str key is the int it spells.
PyInt(node_id) == node_id.val

\* numpy's row indexing of an array of n rows (line 68): whether index i is
\* accepted, and the row it denotes (a negative index counts from the end).
IndexInBounds(i, n) == (0 - n) <= i /\ i < n
RowOf(i, n) == IF i >= 0 THEN i ELSE n + i

\* np.full(shape=(n, latent_dim), fill_value=None) of lines 64-66.
np_full(n) == [r \in 0..(n - 1) |-> None]

\* setup_env (line 49): the directories of the experiment (seed, num_splits).
setup_env(seed_val, num_splits_val) ==
    [d \in {"base_dir", "interim_data_dir", "data_dir"} |->
        [dir |-> d, seed |-> seed_val, num_splits |-> num_splits_val]]

\* datasets['splits'][k][part]: the index set of one part of split k.
SplitIdx(k, part) == [split |-> k, part |-> part]

\* eval_pred(labels, pred, idx): one value per metric, computed from the
\* predictions it is given, restricted to the index set it is given.
eval_pred(predictions, idx) ==
    [m \in MetricNames |-> [metric |-> m, pred |-> predictions, idx |-> idx]]

\* TestLogMetrics(num_splits, names): one slot per split for every name.
TestLogMetrics(n) == [m \in MetricNames |-> [k \in 0..(n - 1) |-> None]]

\* TestLogMetrics.update(metric_name, run_id, value).
update(logger, metric_name, k, value) ==
    [logger EXCEPT ![metric_name] = [@ EXCEPT ![k] = value]]

\* Updates of one logger for the metric names of keys, in order (the for
\* loops of lines 85-86 and 91-92).
RECURSIVE updateAll(_, _, _, _, _)
updateAll(logger, keys, i, k, values) ==
    IF i > Len(keys) THEN logger
    ELSE updateAll(update(logger, keys[i], k, values[keys[i]]), keys, i + 1, k, values)

\* TestLogMetrics.get_metric_stats(metric_name): the (avg, std) pair.
get_metric_stats(which, logger, metric_name) ==
    [avg |-> [stat |-> "avg", logger |-> which, metric |-> metric_name,
              data |-> logger[metric_name]],
     std |-> [stat |-> "std", logger |-> which, metric |-> metric_name,
              data |-> logger[metric_name]]]

\* A faulty test branch that logs its scalars under keys of their own.
TestScalarKey_Prefixed(metric_name, suffix) == "test_" \o metric_name \o suffix

\* The scalar keys of the val loop (lines 97-98) and of the test loop
\* (lines 106-107).
ValScalarKey(metric_name, suffix) == metric_name \o suffix
TestScalarKey(metric_name, suffix) == metric_name \o suffix

\* The array file names of the val loop (line 99) and the test loop (line 108).
ValFileName(metric_name) == "val_" \o metric_name
TestFileName(metric_name) == metric_name

\* What shutil.rmtree(path, ignore_errors=True) can do (line 144).  Errors
\* of the removal itself are ignored; closing the directory may still raise
\* OSError.  A path that is no path (None) is skipped silently by the
\* descriptor-based implementation and raises TypeError from os.lstat in the
\* other one.
RmtreeOutcomes(path) ==
    IF path = None THEN {"returned", "TypeError"} ELSE {"returned", "OSError"}

\* A loop body wrapped in a handler that swallows the exception and goes
\* on with the next split.
AfterRaiseInSplit_Swallowed == "for_split"

\* Where control goes when a statement of the loop body (lines 75-92)
\* raises: there is no handler in run_experiment nor around its call
\* (lines 134-142), so the program ends.
AfterRaiseInSplit == "crashed"

RaiseInSplit(type, msg, line) ==
    /\ error' = [type |-> type, msg |-> msg, line |-> line]
    /\ pc' = AfterRaiseInSplit

\* The same for a statement outside the loop.
Raise(type, msg, line) ==
    /\ error' = [type |-> type, msg |-> msg, line |-> line]
    /\ pc' = "crashed"

seed_val == seed[si]
num_splits_val == num_splits[ni]

---------------------------------------------------------------------------
\* Initial state: the script starts with its inputs fixed and nothing run.

Init ==
    /\ seed \in {<<0>>, <<0, 1>>}
    /\ num_splits \in SplitLists
    /\ model_hyper_parameters \in ModelConfigs
    /\ dataGraph \in Graphs
    /\ pc = "for_seed"
    /\ si = 1 /\ ni = 1 /\ runNo = 0
    /\ error = NoError
    /\ collabRaised = FALSE
    /\ env = Unbound /\ datasets = Unbound /\ embedded = FALSE
    /\ node_embeddings_node2vec = <<>> /\ todo = {}
    /\ val_logger = <<>> /\ test_logger = <<>>
    /\ it = 0 /\ run_id = 0 - 1 /\ visited = <<>>
    /\ model = Unbound /\ fits = 0
    /\ pred = Unbound /\ test_pred = Unbound
    /\ val_metrics = Unbound /\ test_metrics = Unbound
    /\ splitsRead = {}
    /\ mi = 1 /\ scalars = <<>> /\ saved = <<>> /\ artifacts = <<>>
    /\ exp_dir = Unbound /\ rmtreeArgs = <<>> /\ printed = <<>>

---------------------------------------------------------------------------
\* The entry point (lines 131-146).

\* Line 131-132: the next seed, or the end of the script.
ForSeed ==
    /\ pc = "for_seed"
    /\ IF si <= Len(seed)
       THEN /\ ni' = 1
            /\ pc' = "for_num_splits"
       ELSE /\ pc' = "done"
            /\ UNCHANGED ni
    /\ UNCHANGED <<inputs, si, runNo, exp_dir, rmtreeArgs, printed, error,
                   collabRaised, dataVars, loggerVars, loopVars, splitVars, outVars>>

\* Lines 133-135: the next split count starts a tracked run and calls
\* run_experiment, whose locals are all unassigned; an exhausted list goes
\* back to the seed loop.
ForNumSplits ==
    /\ pc = "for_num_splits"
    /\ IF ni <= Len(num_splits)
       THEN /\ runNo' = runNo + 1
            /\ pc' = "setup"
            /\ env' = Unbound /\ datasets' = Unbound /\ embedded' = FALSE
            /\ node_embeddings_node2vec' = <<>> /\ todo' = {}
            /\ val_logger' = <<>> /\ test_logger' = <<>>
            /\ it' = 0 /\ run_id' = 0 - 1 /\ visited' = <<>>
            /\ model' = Unbound /\ fits' = 0
            /\ pred' = Unbound /\ test_pred' = Unbound
            /\ val_metrics' = Unbound /\ test_metrics' = Unbound
            /\ splitsRead' = {}
            /\ mi' = 1
            /\ UNCHANGED <<si, ni>>
       ELSE /\ si' = si + 1
            /\ pc' = "for_seed"
            /\ UNCHANGED <<ni, runNo, dataVars, loggerVars, loopVars, splitVars, mi>>
    /\ UNCHANGED <<inputs, exp_dir, rmtreeArgs, printed, error, collabRaised,
                   scalars, saved, artifacts>>

\* Lines 143-146: rmtree is handed exp_dir; an OSError is caught and
\* reported, any other exception leaves the script.
Cleanup ==
    /\ pc = "cleanup"
    /\ \E outcome \in RmtreeOutcomes(exp_dir) :
        /\ rmtreeArgs' = Append(rmtreeArgs, exp_dir)
        /\ IF outcome = "TypeError"
           THEN /\ Raise("TypeError", "rmtree", 144)
                /\ UNCHANGED <<ni, printed>>
           ELSE /\ printed' = IF outcome = "OSError"
                              THEN Append(printed, [run |-> runNo, path |-> exp_dir])
                              ELSE printed
                /\ ni' = ni + 1
                /\ pc' = "for_num_splits"
                /\ UNCHANGED error
    /\ UNCHANGED <<inputs, si, runNo, exp_dir, collabRaised, dataVars, loggerVars,
                   loopVars, splitVars, outVars>>

---------------------------------------------------------------------------
\* run_experiment, before the loop (lines 43-72).

\* Lines 43-52: parameters logged, seed set, directories prepared.
Setup ==
    /\ pc = "setup"
    /\ env' = setup_env(seed_val, num_splits_val)
    /\ pc' = "load"
    /\ UNCHANGED <<inputs, mainVars, error, collabRaised, datasets, embedded,
                   node_embeddings_node2vec, todo, loggerVars, loopVars, splitVars,
                   outVars>>

\* Lines 54-57: the data loader returns the graph, the labels and the
\* splits, or raises.
LoadData ==
    /\ pc = "load"
    /\ \E ok \in BOOLEAN :
        IF ok
        THEN /\ datasets' = [graph |-> dataGraph]
             /\ pc' = "embed"
             /\ UNCHANGED <<error, collabRaised>>
        ELSE /\ Raise("CollaboratorError", "create_data_loader", 54)
             /\ collabRaised' = TRUE
             /\ UNCHANGED datasets
    /\ UNCHANGED <<inputs, mainVars, env, embedded, node_embeddings_node2vec, todo,
                   loggerVars, loopVars, splitVars, outVars>>

\* Lines 60-63: the embedding library precomputes the walks and fits, or
\* raises.
Embed ==
    /\ pc = "embed"
    /\ \E ok \in BOOLEAN :
        IF ok
        THEN /\ embedded' = TRUE
             /\ pc' = "alloc"
             /\ UNCHANGED <<error, collabRaised>>
        ELSE /\ Raise("CollaboratorError", "Node2Vec", 60)
             /\ collabRaised' = TRUE
             /\ UNCHANGED embedded
    /\ UNCHANGED <<inputs, mainVars, env, datasets, node_embeddings_node2vec, todo,
                   loggerVars, loopVars, splitVars, outVars>>

\* Lines 64-67: the matrix is allocated with one row per node, every row
\* unset, and the loop over the graph's nodes starts.
Alloc ==
    /\ pc = "alloc"
    /\ node_embeddings_node2vec' = np_full(Cardinality(datasets.graph))
    /\ todo' = datasets.graph
    /\ pc' = "fill"
    /\ UNCHANGED <<inputs, mainVars, error, collabRaised, env, datasets, embedded,
                   loggerVars, loopVars, splitVars, outVars>>

\* Lines 67-68: one node of the graph, in the graph's own order, is written
\* to row int(node_id); an index outside the matrix raises IndexError.  Once
\* every node is visited the loop ends.
FillRow ==
    /\ pc = "fill"
    /\ IF todo = {}
       THEN /\ pc' = "loggers"
            /\ UNCHANGED <<error, node_embeddings_node2vec, todo>>
       ELSE \E node_id \in todo :
            LET n == Cardinality(datasets.graph)
                i == PyInt(node_id)
            IN  IF IndexInBounds(i, n)
                THEN /\ node_embeddings_node2vec' =
                            [node_embeddings_node2vec EXCEPT ![RowOf(i, n)] = node_id]
                     /\ todo' = todo \ {node_id}
                     /\ UNCHANGED <<pc, error>>
                ELSE /\ Raise("IndexError", "node_embeddings_node2vec", 68)
                     /\ UNCHANGED <<node_embeddings_node2vec, todo>>
    /\ UNCHANGED <<inputs, mainVars, collabRaised, env, datasets, embedded,
                   loggerVars, loopVars, splitVars, outVars>>

\* Lines 71-72: the two loggers.
CreateLoggers ==
    /\ pc = "loggers"
    /\ val_logger' = TestLogMetrics(num_splits_val)
    /\ test_logger' = TestLogMetrics(num_splits_val)
    /\ pc' = "for_split"
    /\ UNCHANGED <<inputs, mainVars, error, collabRaised, dataVars, loopVars,
                   splitVars, outVars>>

---------------------------------------------------------------------------
\* The evaluation loop (lines 74-92).

\* Lines 74-75: range(num_splits) yields the next run_id, or is exhausted
\* and the code after the loop starts.
ForSplit ==
    /\ pc = "for_split"
    /\ IF it < num_splits_val
       THEN /\ run_id' = it
            /\ it' = it + 1
            /\ visited' = Append(visited, it)
            /\ pc' = "create_model"
            /\ UNCHANGED mi
       ELSE /\ pc' = "agg_val"
            /\ mi' = 1
            /\ UNCHANGED loopVars
    /\ UNCHANGED <<inputs, mainVars, error, collabRaised, dataVars, loggerVars,
                   splitVars, scalars, saved, artifacts>>

\* Line 78: a fresh classifier from the factory, or the factory's error.
CreateModel ==
    /\ pc = "create_model"
    /\ LET r == create_model(model_hyper_parameters)
       IN  IF r.raised = "none"
           THEN /\ model' = [family |-> r.value, fitted |-> None]
                /\ pc' = "fit"
                /\ UNCHANGED error
           ELSE /\ RaiseInSplit(r.raised, r.msg, 78)
                /\ UNCHANGED model
    /\ UNCHANGED <<inputs, mainVars, collabRaised, dataVars, loggerVars, loopVars,
                   fits, pred, test_pred, val_metrics, test_metrics, splitsRead,
                   outVars>>

\* Lines 79-80: the train indices of the split are read and the classifier
\* is fitted on them, or fit raises.
Fit ==
    /\ pc = "fit"
    /\ splitsRead' = splitsRead \cup {SplitIdx(run_id, "train")}
    /\ fits' = fits + 1
    /\ \E ok \in BOOLEAN :
        IF ok
        THEN /\ model' = [model EXCEPT !.fitted = SplitIdx(run_id, "train")]
             /\ pc' = "predict"
             /\ UNCHANGED <<error, collabRaised>>
        ELSE /\ RaiseInSplit("CollaboratorError", "fit", 79)
             /\ collabRaised' = TRUE
             /\ UNCHANGED model
    /\ UNCHANGED <<inputs, mainVars, dataVars, loggerVars, loopVars, pred, test_pred,
                   val_metrics, test_metrics, outVars>>

\* Line 82: the prediction pass of the val branch, over the whole matrix.
ValPredict ==
    /\ pc = "predict"
    /\ \E ok \in BOOLEAN :
        IF ok
        THEN /\ pred' = [pass |-> "pred", by |-> model]
             /\ pc' = "eval"
             /\ UNCHANGED <<error, collabRaised>>
        ELSE /\ RaiseInSplit("CollaboratorError", "predict", 82)
             /\ collabRaised' = TRUE
             /\ UNCHANGED pred
    /\ UNCHANGED <<inputs, mainVars, dataVars, loggerVars, loopVars, model, fits,
                   test_pred, val_metrics, test_metrics, splitsRead, outVars>>

\* Line 84: the val metrics, from pred restricted to the val indices.
ValEval ==
    /\ pc = "eval"
    /\ splitsRead' = splitsRead \cup {SplitIdx(run_id, "val")}
    /\ \E ok \in BOOLEAN :
        IF ok
        THEN /\ val_metrics' = eval_pred(pred, SplitIdx(run_id, "val"))
             /\ pc' = "log_split"
             /\ UNCHANGED <<error, collabRaised>>
        ELSE /\ RaiseInSplit("CollaboratorError", "eval_pred", 84)
             /\ collabRaised' = TRUE
             /\ UNCHANGED val_metrics
    /\ UNCHANGED <<inputs, mainVars, dataVars, loggerVars, loopVars, model, fits,
                   pred, test_pred, test_metrics, outVars>>

\* Lines 85-92, the rest of the loop body.  Line 85 iterates over the keys
\* of test_metrics, a local that is first assigned on line 90: reading it
\* unassigned raises UnboundLocalError.  Otherwise the val logger is updated
\* (line 86), the second prediction pass is stored in test_pred (line 88),
\* the test metrics are computed from pred, not test_pred (line 90), and the
\* test logger is updated (lines 91-92).
LogSplit ==
    /\ pc = "log_split"
    /\ IF test_metrics = Unbound
       THEN /\ RaiseInSplit("UnboundLocalError", "test_metrics", 85)
            /\ UNCHANGED <<collabRaised, loggerVars, test_pred, test_metrics,
                           splitsRead>>
       ELSE \E outcome \in {"ok", "predict", "eval_pred"} :
            /\ val_logger' = updateAll(val_logger, Metrics, 1, run_id, val_metrics)
            /\ IF outcome = "predict"
               THEN /\ RaiseInSplit("CollaboratorError", "predict", 88)
                    /\ collabRaised' = TRUE
                    /\ UNCHANGED <<test_logger, test_pred, test_metrics, splitsRead>>
               ELSE /\ test_pred' = [pass |-> "test_pred", by |-> model]
                    /\ splitsRead' = splitsRead \cup {SplitIdx(run_id, "test")}
                    /\ IF outcome = "eval_pred"
                       THEN /\ RaiseInSplit("CollaboratorError", "eval_pred", 90)
                            /\ collabRaised' = TRUE
                            /\ UNCHANGED <<test_logger, test_metrics>>
                       ELSE /\ test_metrics' =
                                   eval_pred(pred, SplitIdx(run_id, "test"))
                            /\ test_logger' = updateAll(test_logger, Metrics, 1,
                                                        run_id, test_metrics')
                            /\ pc' = "for_split"
                            /\ UNCHANGED <<error, collabRaised>>
    /\ UNCHANGED <<inputs, mainVars, dataVars, loopVars, model, fits, pred,
                   val_metrics, outVars>>

---------------------------------------------------------------------------
\* Metrics aggregation (lines 94-110).

\* Lines 95-101: for the next metric of the val logger, its two scalars are
\* logged and its array is saved and registered; after the last one the
\* test loop starts.
AggVal ==
    /\ pc = "agg_val"
    /\ IF mi <= Len(Metrics)
       THEN LET metric_name == Metrics[mi]
                st == get_metric_stats("val", val_logger, metric_name)
                file == ValFileName(metric_name) \o ".npy"
            IN  /\ scalars' = scalars \o
                      <<[run |-> runNo, key |-> ValScalarKey(metric_name, "_avg"),
                         value |-> st.avg],
                        [run |-> runNo, key |-> ValScalarKey(metric_name, "_std"),
                         value |-> st.std]>>
                /\ saved' = Append(saved, [run |-> runNo, file |-> file,
                                           arr |-> val_logger[metric_name]])
                /\ artifacts' = Append(artifacts, [run |-> runNo, file |-> file])
                /\ mi' = mi + 1
                /\ UNCHANGED pc
       ELSE /\ mi' = 1
            /\ pc' = "agg_test"
            /\ UNCHANGED <<scalars, saved, artifacts>>
    /\ UNCHANGED <<inputs, mainVars, error, collabRaised, dataVars, loggerVars,
                   loopVars, splitVars>>

\* Lines 104-110: the same for the test logger; after the last metric
\* run_experiment falls off its end and returns None, which line 135
\* assigns to exp_dir.
AggTest ==
    /\ pc = "agg_test"
    /\ IF mi <= Len(Metrics)
       THEN LET metric_name == Metrics[mi]
                st == get_metric_stats("test", test_logger, metric_name)
                file == TestFileName(metric_name) \o ".npy"
            IN  /\ scalars' = scalars \o
                      <<[run |-> runNo, key |-> TestScalarKey(metric_name, "_avg"),
                         value |-> st.avg],
                        [run |-> runNo, key |-> TestScalarKey(metric_name, "_std"),
                         value |-> st.std]>>
                /\ saved' = Append(saved, [run |-> runNo, file |-> file,
                                           arr |-> test_logger[metric_name]])
                /\ artifacts' = Append(artifacts, [run |-> runNo, file |-> file])
                /\ mi' = mi + 1
                /\ UNCHANGED <<pc, exp_dir>>
       ELSE /\ exp_dir' = None
            /\ pc' = "cleanup"
            /\ UNCHANGED <<mi, scalars, saved, artifacts>>
    /\ UNCHANGED <<inputs, si, ni, runNo, rmtreeArgs, printed, error, collabRaised,
                   dataVars, loggerVars, loopVars, splitVars>>

---------------------------------------------------------------------------
Next ==
    \/ ForSeed \/ ForNumSplits \/ Cleanup
    \/ Setup \/ LoadData \/ Embed \/ Alloc \/ FillRow \/ CreateLoggers
    \/ ForSplit \/ CreateModel \/ Fit \/ ValPredict \/ ValEval \/ LogSplit
    \/ AggVal \/ AggTest

Spec == Init /\ [][Next]_vars

---------------------------------------------------------------------------
\* Vocabulary of the properties.

Configured == "model_name" \in DOMAIN model_hyper_parameters
Supported == Configured /\ model_hyper_parameters.model_name \in {"LR", "RF"}
Unknown == Configured /\ model_hyper_parameters.model_name \notin {"LR", "RF"}

\* The program died on a statement of the loop body.
DiedInLoop == pc = "crashed" /\ error.line \in 75..92
\* The loop's range was exhausted and the code after the loop is running.
LoopFinished == pc \in {"agg_val", "agg_test", "cleanup"}
\* The factory's own error reached the top level.
FactoryError == error.type = "Exception" /\ error.line = 78
\* A collaborator failed inside the body of a split.
SplitFailure == error.type = "CollaboratorError" /\ error.line \in {79, 82, 84, 88, 90}

InOrder(sq) == \A i \in 1..Len(sq) : sq[i] = i - 1
ScalarsOf(run, key) == SelectSeq(scalars, LAMBDA e : e.run = run /\ e.key = key)
FilesOf(run) == {saved[i].file : i \in {j \in 1..Len(saved) : saved[j].run = run}}
NothingPersisted(run) ==
    /\ \A i \in 1..Len(scalars) : scalars[i].run # run
    /\ \A i \in 1..Len(saved) : saved[i].run # run
    /\ \A i \in 1..Len(artifacts) : artifacts[i].run # run

---------------------------------------------------------------------------
\* C1: with a supported model and no collaborator raising, the loop visits
\* the splits 0, 1, ..., num_splits-1 in order and the run gets to the code
\* after the loop: it never ends on a statement of the loop body.
C1_LoopRunsToFinished ==
    (Supported /\ ~collabRaised) => (InOrder(visited) /\ ~DiedInLoop)

C3_FactoryContract ==
    /\ [](/\ (pc = "fit" /\ Configured) =>
               \/ /\ model_hyper_parameters.model_name = "LR"
                  /\ model = [family |-> "LogisticRegression", fitted |-> None]
               \/ /\ model_hyper_parameters.model_name = "RF"
                  /\ model = [family |-> "RandomForestClassifier", fitted |-> None]
          /\ (Unknown /\ Len(visited) > 0 /\ pc # "create_model") =>
               /\ FactoryError
               /\ error.msg = model_hyper_parameters.model_name \o " not allowed."
               /\ model = Unbound
               /\ pc = "crashed")
    /\ [][pc = "create_model" =>
             UNCHANGED <<inputs, mainVars, collabRaised, dataVars, loggerVars,
                         loopVars, fits, pred, test_pred, val_metrics, test_metrics,
                         splitsRead, outVars>>]_vars
C3_Witness == FactoryError /\ error.msg = "SVM not allowed." /\ pc = "crashed"

C5_ValTestIndependent ==
    \A i \in 1..Len(visited) :
        LET k == visited[i]
            processed == \/ k < run_id
                         \/ /\ k = run_id
                            /\ pc \notin {"create_model", "fit", "predict", "eval",
                                          "log_split"}
            fitted == [family |-> create_model(model_hyper_parameters).value,
                       fitted |-> SplitIdx(k, "train")]
        IN  (Supported /\ ~collabRaised /\ processed) =>
              \A m \in MetricNames :
                /\ val_logger[m][k] =
                     eval_pred([pass |-> "pred", by |-> fitted], SplitIdx(k, "val"))[m]
                /\ test_logger[m][k] =
                     eval_pred([pass |-> "test_pred", by |-> fitted],
                               SplitIdx(k, "test"))[m]

\* C6: filling the matrix never indexes outside it, and once the fill loop
\* is over no row is left unset.
C6_EveryRowFilled ==
    /\ error.type # "IndexError"
    /\ pc \in {"loggers", "for_split", "create_model", "fit", "predict", "eval",
               "log_split", "agg_val", "agg_test"} =>
         \A r \in DOMAIN node_embeddings_node2vec :
             node_embeddings_node2vec[r] # None

\* C7: a removal that raises is not fatal: the script never ends on the
\* removal call of line 144.
C7_RemovalFailureNotFatal ==
    ~(pc = "crashed" /\ error.line = 144)

\* C8: a failure of fit, predict or eval_pred in split k ends the program
\* there: nothing more can happen, split k is the last split entered and was
\* entered once, and nothing of that run was logged or written.
C8_FailurePropagates ==
    SplitFailure =>
        /\ pc = "crashed"
        /\ ~ENABLED Next
        /\ InOrder(visited) /\ Len(visited) = run_id + 1
        /\ fits <= Len(visited)
        /\ NothingPersisted(runNo)
C8_Witness ==
    SplitFailure /\ error.line = 84 /\ pc = "crashed" /\ run_id = 0
    /\ num_splits_val > 1

\* C9: the path handed to rmtree after a run is one of the directories that
\* run worked in.
C9_RemovesWorkingDir ==
    (rmtreeArgs # <<>> /\ pc \in {"for_num_splits", "for_seed", "done"}) =>
        rmtreeArgs[Len(rmtreeArgs)] \in {env[d] : d \in DOMAIN env}

\* C10: in a run that has finished its aggregation, the val and test arrays
\* of a metric are saved under different names, while each of the keys
\* <metric>_avg and <metric>_std was logged exactly twice, first with the val
\* statistic and then with the test statistic.
C10_ScalarKeysShared ==
    pc = "cleanup" =>
        \A m \in MetricNames :
            /\ ("val_" \o m \o ".npy") \in FilesOf(runNo)
            /\ (m \o ".npy") \in FilesOf(runNo)
            /\ \A suffix \in {"_avg", "_std"} :
                 LET logged == ScalarsOf(runNo, m \o suffix)
                 IN  /\ Len(logged) = 2
                     /\ logged[1].value.logger = "val"
                     /\ logged[2].value.logger = "test"
                     /\ logged[1].value.metric = m /\ logged[2].value.metric = m
C10_Witness == pc = "cleanup" /\ Len(scalars) >= 2 * Len(Metrics) * 2

====
